---- MODULE Spec2Model ----
(***************************************************************************)
(* Model of greenwave/resources.py: the ResultsDB and WaiverDB retrievers  *)
(* with their in-process and external caches, the remote rule fetcher and  *)
(* the Koji SCM URL parser.                                                *)
(***************************************************************************)
EXTENDS Integers, Sequences, FiniteSets, TLC

VARIABLES
    backend,     \* Config.CACHE backend of current_app.cache: "null" or "memory"
    db,          \* results held by ResultsDB (upstream), oldest first
    wdb,         \* waivers held by WaiverDB (upstream)
    extCache,    \* current_app.cache: external cache key -> cached value
    retr,        \* the ResultsRetriever instances: ignore_ids, since, cache
    wretr,       \* the WaiversRetriever instances: ignore_ids, since
    last,        \* the most recent retrieve call and what it did
    ycall,       \* the most recent retrieve_yaml_remote_rule call
    scm,         \* the most recent retrieve_scm_from_koji_build call
    koji,        \* the most recent Koji lookup call
    keyq         \* the most recent pair of external cache keys built

vars == <<backend, db, wdb, extCache, retr, wretr, last, ycall, scm, koji, keyq>>

(***************************************************************************)
(* Bounds                                                                  *)
(***************************************************************************)
MaxResults == 2
MaxWaivers == 2
MaxSegments == 3
MaxRequestLen == 2

(***************************************************************************)
(* Values                                                                  *)
(***************************************************************************)
\* Python None / a missing testcase argument: falsy, like the empty string.
NoTestcase == ""

\* self.since = None
NoSince == <<>>

\* The '1900-01-01T00:00:00.000000' lower edge of the since window.
Epoch == 0

EmptyMap == [k \in {} |-> <<>>]

Put(m, k, v) == [x \in (DOMAIN m) \cup {k} |-> IF x = k THEN v ELSE m[x]]

Backends == {"null", "memory"}

Subjects == { [type |-> "koji_build", identifier |-> "nvr"] }

Testcases == {"t1", "t2"}

\* The testcase arguments of the retrieve calls.
CallTestcases == {NoTestcase, "t1"}

OUTCOMES_PASSED == {"PASSED", "INFO"}

\* subject.result_queries(): the query specifications of a subject.
ResultQueries(subject) ==
    IF subject.type = "koji_build"
    THEN << [type |-> "koji_build", item |-> subject.identifier],
            [type |-> "brew-build", item |-> subject.identifier] >>
    ELSE << [type |-> subject.type, item |-> subject.identifier] >>

\* The results that get submitted to ResultsDB: which query of the subject
\* finds them, their testcase and their outcome.
SubmittedKinds ==
    { [q |-> 1, testcase |-> "t1", outcome |-> "PASSED"],
      [q |-> 1, testcase |-> "t1", outcome |-> "FAILED"],
      [q |-> 2, testcase |-> "t1", outcome |-> "PASSED"],
      [q |-> 1, testcase |-> "t2", outcome |-> "FAILED"] }

ResultRetrievers == {"r1", "r2"}
WaiverRetrievers == {"w1", "w2"}

\* The constructor arguments of the instances.
IgnoreIdsOf(r) == IF r \in {"r1", "w1"} THEN {} ELSE {1}
WhenOf(r) == IF r \in {"r1", "w1"} THEN 0 ELSE 2

\* The when argument of the instances of an earlier decision.
NarrowWhenOf(r) == IF r \in {"r1", "w1"} THEN 0 ELSE 1

(***************************************************************************)
(* BaseRetriever                                                           *)
(***************************************************************************)
\* BaseRetriever.__init__: since is None unless when is truthy.
BaseInit(ignore_ids, when) ==
    [ignore_ids |-> ignore_ids,
     since |-> IF when # 0 THEN <<Epoch, when>> ELSE NoSince]

\* A retrieve that forgets the ignore list.
IgnoreFilterOff(items, ignore_ids) == items

\* The list comprehension of BaseRetriever.retrieve.
IgnoreFilter(items, ignore_ids) ==
    SelectSeq(items, LAMBDA item : item.id \notin ignore_ids)

\* response.raise_for_status(): raises on 4xx and 5xx.
RaisesForStatus(status) == status >= 400 /\ status < 600

(***************************************************************************)
(* Upstream ResultsDB, as seen through GET /results/latest                 *)
(***************************************************************************)
\* The 'since' parameter: ResultsDB keeps the results submitted between the
\* two timestamps, both edges included.
InSince(result, since) ==
    since = NoSince \/ (result.submit_time >= since[1] /\ result.submit_time <= since[2])

\* The 'data' array of the response to one query with the given params.
ResultsResponse(query, since, testcase) ==
    SelectSeq(db, LAMBDA res :
        /\ res.type = query.type /\ res.item = query.item
        /\ (testcase = NoTestcase \/ res.testcase.name = testcase)
        /\ InSince(res, since))

(***************************************************************************)
(* ResultsRetriever                                                        *)
(***************************************************************************)
\* get_external_cache: a miss gives dogpile's NO_VALUE.
GetExternalCache(key) ==
    IF key \in DOMAIN extCache
    THEN [hit |-> TRUE, value |-> extCache[key]]
    ELSE [hit |-> FALSE, value |-> <<>>]

\* A cache whose set stores nothing, whatever the backend.
SetExternalCacheDrop(key, value) == extCache

\* set_external_cache: the null backend stores nothing.
SetExternalCache(key, value) ==
    IF backend = "memory" THEN Put(extCache, key, value) ELSE extCache

\* Truth value of what the cache returned: NO_VALUE and [] are falsy.
Truthy(got) == got.hit /\ got.value # <<>>

ExternalCacheKey(subject, testcase) ==
    "greenwave.resources:ResultsRetriever|"
        \o subject.type \o " " \o subject.identifier \o " " \o testcase

ResultsKeys == { ExternalCacheKey(s, t) : s \in Subjects, t \in Testcases }

CacheKey(subject) == <<subject.type, subject.identifier>>

ResultsMatchTime(since, results) ==
    IF since = NoSince THEN TRUE
    ELSE LET until == since[2]
         IN \A i \in 1..Len(results) : results[i].submit_time < until

\* A check that is content with one passing result.
AllPassedAny(results) ==
    results = <<>> \/ \E i \in 1..Len(results) : results[i].outcome \in OUTCOMES_PASSED

\* all(result.get('outcome') in OUTCOMES_PASSED for result in results)
AllPassed(results) ==
    \A i \in 1..Len(results) : results[i].outcome \in OUTCOMES_PASSED

\* A hit that hands out the whole cached set.
FilterTestcaseOff(results, testcase) == results

\* [res for res in self.cache[cache_key] if res['testcase']['name'] == testcase]
FilterTestcase(results, testcase) ==
    SelectSeq(results, LAMBDA res : res.testcase.name = testcase)

\* The loop over subject.result_queries(): the merged data of the first n.
RECURSIVE MergedResults(_, _, _, _)
MergedResults(subject, since, testcase, n) ==
    IF n = 0 THEN <<>>
    ELSE MergedResults(subject, since, testcase, n - 1)
            \o ResultsResponse(ResultQueries(subject)[n], since, testcase)

HttpStatuses == {200, 500}

\* ResultsDB answers every request of the loop with 200.
AllOk(subject) == [i \in 1..Len(ResultQueries(subject)) |-> 200]

\* A _retrieve_data that does not look at the status of the response.
FirstFailureSwallowed(statuses) == 0

\* _retrieve_data raises at the first response whose status is an error:
\* the index of that request, 0 when every request succeeds.
FirstFailure(statuses) ==
    IF \E i \in 1..Len(statuses) : RaisesForStatus(statuses[i])
    THEN CHOOSE i \in 1..Len(statuses) :
            /\ RaisesForStatus(statuses[i])
            /\ \A j \in 1..(i - 1) : ~RaisesForStatus(statuses[j])
    ELSE 0

NoValue == [hit |-> FALSE, value |-> <<>>]

\* A cache dict that belongs to the class: what any instance stored.
SharedCache(r) ==
    LET owners == { x \in ResultRetrievers : retr[x].cache # EmptyMap }
    IN  IF retr[r].cache # EmptyMap \/ owners = {} THEN retr[r].cache
        ELSE retr[CHOOSE x \in owners : TRUE].cache

\* self.cache: the dict made in __init__, one for each instance.
InstanceCache(r) == retr[r].cache

\* if testcase and cache_key in self.cache
InProcHit(cache, cache_key, testcase) ==
    testcase # NoTestcase /\ cache_key \in DOMAIN cache

\* An in-process cache that keeps what any call fetched.
StoreInProcAlways(cache, cache_key, testcase, results) ==
    Put(cache, cache_key, results)

\* if not testcase: self.cache[cache_key] = results
StoreInProc(cache, cache_key, testcase, results) ==
    IF testcase = NoTestcase THEN Put(cache, cache_key, results) ELSE cache

\* ResultsRetriever._retrieve_all, with the statuses ResultsDB answers the
\* requests of the loop with.
ResultsRetrieveAll(r, subject, testcase, statuses) ==
    LET self == retr[r]
        cache_key == CacheKey(subject)
        external_cache_key == ExternalCacheKey(subject, testcase)
        got == GetExternalCache(external_cache_key)
        nq == Len(ResultQueries(subject))
        failAt == FirstFailure(statuses)
        results == MergedResults(subject, self.since, testcase, nq)
        base == [status |-> "ok", items |-> <<>>, served |-> "upstream",
                 requests |-> 0, extRead |-> FALSE, got |-> NoValue,
                 extWrite |-> FALSE, cache |-> self.cache, ext |-> extCache]
        cached == InstanceCache(r)
        miss == [base EXCEPT !.extRead = (testcase # NoTestcase),
                             !.got = IF testcase # NoTestcase THEN got ELSE NoValue]
    IN  IF InProcHit(cached, cache_key, testcase)
        THEN [base EXCEPT !.items = FilterTestcase(cached[cache_key], testcase),
                          !.served = "inproc"]
        ELSE IF testcase # NoTestcase /\ Truthy(got)
                    /\ ResultsMatchTime(self.since, got.value)
        THEN [base EXCEPT !.items = got.value, !.served = "external",
                          !.extRead = TRUE, !.got = got]
        ELSE IF failAt # 0
        THEN [miss EXCEPT !.status = "error", !.requests = failAt]
        ELSE [miss EXCEPT
                !.items = results,
                !.requests = nq,
                !.cache = StoreInProc(self.cache, cache_key, testcase, results),
                !.extWrite = (testcase # NoTestcase /\ AllPassed(results)),
                !.ext = IF testcase # NoTestcase /\ AllPassed(results)
                        THEN SetExternalCache(external_cache_key, results)
                        ELSE extCache]

(***************************************************************************)
(* WaiversRetriever                                                        *)
(***************************************************************************)
WaiverIds == 1..MaxWaivers

Waivers == [id : WaiverIds, waived : BOOLEAN]

\* The contents WaiverDB may have: waivers with distinct ids.
WaiverLists ==
    { ws \in UNION { [1..n -> Waivers] : n \in 0..MaxWaivers } :
        \A i, j \in 1..Len(ws) : i # j => ws[i].id # ws[j].id }

FilterLists == { << [testcase |-> "t1"] >> }

\* filter_.update({'since': self.since}) for every filter, when since is set.
FiltersWithSince(filters, since) ==
    IF since # NoSince
    THEN [i \in 1..Len(filters) |->
            [testcase |-> filters[i].testcase, since |-> since]]
    ELSE filters

\* The 'data' array of the response to POST /waivers/+filtered.
WaiversResponse(params) == wdb

\* A retriever that returns every waiver it was sent.
OnlyWaivedOff(waivers) == waivers

OnlyWaived(waivers) == SelectSeq(waivers, LAMBDA waiver : waiver.waived)

\* A WaiversRetriever that keeps what it fetched in the external cache.
WaiversRetrieveAllCached(w, filters, status) ==
    LET key == "greenwave.resources:WaiversRetriever|"
        base == [status |-> "ok", items |-> <<>>, served |-> "upstream",
                 requests |-> 1, extRead |-> TRUE, got |-> NoValue,
                 extWrite |-> FALSE, ext |-> extCache]
    IN  IF key \in DOMAIN extCache
        THEN [base EXCEPT !.items = extCache[key], !.served = "external",
                          !.requests = 0]
        ELSE IF RaisesForStatus(status)
        THEN [base EXCEPT !.status = "error"]
        ELSE [base EXCEPT !.items = OnlyWaived(wdb), !.extWrite = TRUE,
                          !.ext = Put(extCache, key, OnlyWaived(wdb))]

\* WaiversRetriever._retrieve_all: one POST, answered with the given status.
WaiversRetrieveAll(w, filters, status) ==
    LET self == wretr[w]
        params == FiltersWithSince(filters, self.since)
        base == [status |-> "ok", items |-> <<>>, served |-> "upstream",
                 requests |-> 1, extRead |-> FALSE, got |-> NoValue,
                 extWrite |-> FALSE, ext |-> extCache]
    IN  IF RaisesForStatus(status)
        THEN [base EXCEPT !.status = "error"]
        ELSE [base EXCEPT !.items = OnlyWaived(WaiversResponse(params))]

(***************************************************************************)
(* retrieve_yaml_remote_rule                                               *)
(***************************************************************************)
Urls == {"https://src/rpms/a/raw/r1/f/gating.yaml",
         "https://src/rpms/b/raw/r2/f/gating.yaml"}

HeadStatuses == {200, 204, 403, 404, 500}
GetStatuses == {200, 204, 404, 500}
Bodies == {"--- !Policy", ""}

NoYamlCall ==
    [op |-> "none", url |-> "", fromMemo |-> FALSE, heads |-> 0, gets |-> 0,
     headStatus |-> 0, getStatus |-> 0, body |-> "", outcome |-> "",
     content |-> ""]

\* A fetcher for which every 2xx answer to the HEAD means the file is there.
HeadFoundAny2xx(status_code) == status_code >= 200 /\ status_code < 300

\* response.status_code != 200 raises BadGateway: only 200 lets the GET go.
HeadFound(status_code) == status_code = 200

\* The body of retrieve_yaml_remote_rule: the HEAD is answered with
\* headStatus and the GET, if one is sent, with getStatus and body.
RetrieveYamlRemoteRule(url, headStatus, getStatus, body) ==
    LET base == [heads |-> 1, gets |-> 0, outcome |-> "None", content |-> ""]
    IN  IF headStatus = 404
        THEN base
        ELSE IF ~HeadFound(headStatus)
        THEN [base EXCEPT !.outcome = "BadGateway"]
        ELSE IF RaisesForStatus(getStatus)
        THEN [base EXCEPT !.gets = 1, !.outcome = "HTTPError"]
        ELSE [base EXCEPT !.gets = 1, !.outcome = "content", !.content = body]

YamlKey(url) == "greenwave.resources:retrieve_yaml_remote_rule|" \o url

\* The @cached decorator: a value stored under the key of the call is
\* returned without running the function; a value the function returns is
\* stored, an exception is not.
CachedYamlRemoteRule(url, headStatus, getStatus, body) ==
    LET got == GetExternalCache(YamlKey(url))
        res == RetrieveYamlRemoteRule(url, headStatus, getStatus, body)
        returned == res.outcome \in {"None", "content"}
    IN  IF got.hit
        THEN [fromMemo |-> TRUE, heads |-> 0, gets |-> 0,
              outcome |-> got.value.outcome, content |-> got.value.content,
              ext |-> extCache]
        ELSE [fromMemo |-> FALSE, heads |-> res.heads, gets |-> res.gets,
              outcome |-> res.outcome, content |-> res.content,
              ext |-> IF returned
                      THEN SetExternalCache(YamlKey(url),
                              [outcome |-> res.outcome, content |-> res.content])
                      ELSE extCache]

(***************************************************************************)
(* retrieve_scm_from_koji_build                                            *)
(* Strings are sequences of characters.                                    *)
(***************************************************************************)
\* The value of F at v, with v worked out once.
Bind(v, F(_)) == CHOOSE r \in { F(x) : x \in {v} } : TRUE

\* str.find(c, from) for any c of chars; 0 when there is none.
FirstIndex(str, chars, from) ==
    IF \E i \in from..Len(str) : str[i] \in chars
    THEN CHOOSE i \in from..Len(str) :
            /\ str[i] \in chars
            /\ \A j \in from..(i - 1) : str[j] \notin chars
    ELSE 0

\* The pieces of str between the separators at the positions cuts.
SplitAt(str, cuts) ==
    LET edge(k) == IF k = 0 THEN 0
                   ELSE IF k = Cardinality(cuts) + 1 THEN Len(str) + 1
                   ELSE CHOOSE p \in cuts : Cardinality({q \in cuts : q < p}) = k - 1
    IN  [k \in 1..(Cardinality(cuts) + 1) |->
            SubSeq(str, edge(k - 1) + 1, edge(k) - 1)]

SeparatorsOf(str, sep) == { i \in 1..Len(str) : str[i] = sep }

\* str.split(sep)
Split(str, sep) ==
    Bind(str, LAMBDA s : SplitAt(s, SeparatorsOf(s, sep)))

\* A split from the right that stops one separator early.
RSplitShort(str, sep, maxsplit) ==
    Bind(str, LAMBDA s :
        SplitAt(s, { p \in SeparatorsOf(s, sep) :
                        Cardinality({q \in SeparatorsOf(s, sep) : q > p})
                            < maxsplit - 1 }))

\* str.rsplit(sep, maxsplit): split at the last maxsplit separators.
RSplit(str, sep, maxsplit) ==
    Bind(str, LAMBDA s :
        SplitAt(s, { p \in SeparatorsOf(s, sep) :
                        Cardinality({q \in SeparatorsOf(s, sep) : q > p})
                            < maxsplit }))

Letters == {"a", "b", "c", "g", "h", "i", "k", "n", "o", "p", "q", "r", "s",
            "t", "x", "G", "I", "T"}
Digits == {"1", "2", "3"}
SchemeChars == Letters \cup Digits \cup {"+", "-", "."}

\* urlsplit, first step: a leading scheme and its ':' are taken off.
AfterScheme(url) ==
    LET colon == FirstIndex(url, {":"}, 1)
    IN  IF /\ colon > 1
           /\ url[1] \in Letters
           /\ \A j \in 1..(colon - 1) : url[j] \in SchemeChars
        THEN SubSeq(url, colon + 1, Len(url))
        ELSE url

\* urlsplit, second step: after '//' the netloc runs to the next '/?#'.
AfterNetloc(url) ==
    LET delim == IF FirstIndex(url, {"/", "?", "#"}, 3) = 0
                 THEN Len(url) + 1
                 ELSE FirstIndex(url, {"/", "?", "#"}, 3)
    IN  IF Len(url) >= 2 /\ url[1] = "/" /\ url[2] = "/"
        THEN [netloc |-> SubSeq(url, 3, delim - 1),
              rest |-> SubSeq(url, delim, Len(url))]
        ELSE [netloc |-> <<>>, rest |-> url]

\* url.split(c, 1): what is before and what is after the first c.
Partition(url, c) ==
    LET i == FirstIndex(url, {c}, 1)
    IN  IF i = 0 THEN [before |-> url, after |-> <<>>]
        ELSE [before |-> SubSeq(url, 1, i - 1),
              after |-> SubSeq(url, i + 1, Len(url))]

\* urllib.parse.urlparse: the scheme, then the netloc after '//', then the
\* fragment after the first '#', then the query after the first '?'; what
\* is left is the path.
UrlParse(source) ==
    Bind(source, LAMBDA src :
    Bind(AfterScheme(src), LAMBDA url1 :
    Bind(AfterNetloc(url1), LAMBDA loc :
    Bind(Partition(loc.rest, "#"), LAMBDA frag :
    Bind(Partition(frag.before, "?"), LAMBDA qry :
        [netloc |-> loc.netloc, path |-> qry.before, query |-> qry.after,
         fragment |-> frag.after])))))

DotGit == <<".", "g", "i", "t">>

EndsWithDotGit(name) ==
    Len(name) >= 4 /\ SubSeq(name, Len(name) - 3, Len(name)) = DotGit

\* re.sub(r'\.git$', '', pkg_name)
SubDotGit(name) ==
    IF EndsWithDotGit(name) THEN SubSeq(name, 1, Len(name) - 4) ELSE name

NoScmResult ==
    [outcome |-> "", namespace |-> <<>>, pkg_name |-> <<>>, rev |-> <<>>]

\* A parser that does not insist on the fragment.
RetrieveScmAnyRev(source) ==
    IF source.isNone \/ source.str = <<>>
    THEN [NoScmResult EXCEPT !.outcome = "NoSourceException"]
    ELSE Bind(UrlParse(source.str), LAMBDA url :
         Bind(Split(url.path, "/"), LAMBDA parts :
            [outcome |-> "tuple",
             namespace |-> IF Len(parts) < 3 THEN <<>> ELSE parts[Len(parts) - 1],
             pkg_name |-> SubDotGit(parts[Len(parts)]),
             rev |-> url.fragment]))

\* retrieve_scm_from_koji_build(nvr, source, koji_url)
RetrieveScmFromKojiBuild(source) ==
    IF source.isNone \/ source.str = <<>>
    THEN [NoScmResult EXCEPT !.outcome = "NoSourceException"]
    ELSE Bind(UrlParse(source.str), LAMBDA url :
         Bind(RSplit(url.path, "/", 2), LAMBDA path_components :
         Bind(Split(url.path, "/"), LAMBDA names :
            LET namespace == IF Len(path_components) < 3 THEN <<>>
                             ELSE path_components[Len(path_components) - 1]
                rev == url.fragment
                pkg_name == SubDotGit(names[Len(names)])
            IN  IF rev = <<>>
                THEN [NoScmResult EXCEPT !.outcome = "BadGateway"]
                ELSE [outcome |-> "tuple", namespace |-> namespace,
                      pkg_name |-> pkg_name, rev |-> rev])))

\* The source URLs of the calls: a prefix, up to MaxSegments path segments
\* and a suffix.
SourcePrefixes == { <<>>, <<"h", ":", "/", "/", "x">> }

SourceSegments ==
    { <<>>, <<"n">>, <<"p", ".", "g", "i", "t">>, <<"p", ".", "G", "I", "T">>,
      <<"p", ".", "g", "i", "t", ".", "g", "i", "t">>, <<".", "g", "i", "t", "p">> }

SourceSuffixes ==
    { <<>>, <<"#">>, <<"#", "r">>, <<"#", "r", "#", "s">>, <<"?", "q">>,
      <<"?", "q", "#", "r">> }

RECURSIVE JoinSegments(_)
JoinSegments(segments) ==
    IF segments = <<>> THEN <<>>
    ELSE <<"/">> \o Head(segments) \o JoinSegments(Tail(segments))

\* 'https://host/ns/pkg.git#abc123'
ExampleSource ==
    <<"h", "t", "t", "p", "s", ":", "/", "/", "h", "o", "s", "t", "/", "n", "s",
      "/", "p", "k", "g", ".", "g", "i", "t", "#", "a", "b", "c", "1", "2", "3">>

Sources ==
    { [isNone |-> TRUE, str |-> <<>>],
      [isNone |-> FALSE, str |-> ExampleSource] }
    \cup { [isNone |-> FALSE, str |-> pre \o JoinSegments(segs) \o suf] :
            pre \in SourcePrefixes,
            segs \in UNION { [1..n -> SourceSegments] : n \in 0..MaxSegments },
            suf \in SourceSuffixes }

NoScmCall ==
    [op |-> "none", source |-> [isNone |-> TRUE, str |-> <<>>], outcome |-> "",
     namespace |-> <<>>, pkg_name |-> <<>>, rev |-> <<>>]

(***************************************************************************)
(* The Koji lookups                                                        *)
(* What the XML-RPC proxy returns is a tagged value: None, an int, a       *)
(* string, a list, a tuple or a dict.                                      *)
(***************************************************************************)
PyNone == [kind |-> "none", val |-> <<>>, items |-> <<>>, fields |-> EmptyMap]

PyStr(s) == [PyNone EXCEPT !.kind = "str", !.val = s]

PyInt(digits) == [PyNone EXCEPT !.kind = "int", !.val = digits]

PyList(items) == [PyNone EXCEPT !.kind = "list", !.items = items]

PyTuple(items) == [PyNone EXCEPT !.kind = "tuple", !.items = items]

PyDict(fields) == [PyNone EXCEPT !.kind = "dict", !.fields = fields]

\* bool(value)
PyTruthy(value) ==
    CASE value.kind = "none" -> FALSE
      [] value.kind = "str" -> value.val # <<>>
      [] value.kind = "int" -> value.val # <<"0">>
      [] value.kind \in {"list", "tuple"} -> value.items # <<>>
      [] value.kind = "dict" -> DOMAIN value.fields # {}

\* obj[key] for a string key: a dict without the key raises KeyError, and
\* None, an int, a string or a list raise TypeError.
Subscript(obj, key) ==
    IF obj.kind = "dict"
    THEN IF key \in DOMAIN obj.fields
         THEN [exc |-> "", value |-> obj.fields[key]]
         ELSE [exc |-> "KeyError", value |-> PyNone]
    ELSE [exc |-> "TypeError", value |-> PyNone]

\* dict.get(key)
DictGet(obj, key) ==
    IF key \in DOMAIN obj.fields THEN obj.fields[key] ELSE PyNone

\* What a call of the proxy does: it raises fault, or returns value.
RpcFaults == {"ProtocolError", "socket.error", "Fault"}

Returned(value) == [fault |-> "", value |-> value]

Raised(fault) == [fault |-> fault, value |-> PyNone]

TargetName == <<"f", "3", "0">>

\* A lookup that takes the second element whatever its type.
RetrieveKojiBuildTargetAnyType(answer) ==
    IF answer.fault # ""
    THEN [outcome |-> answer.fault, value |-> PyNone]
    ELSE IF answer.value.kind = "list" /\ Len(answer.value.items) > 1
    THEN [outcome |-> "return", value |-> answer.value.items[2]]
    ELSE [outcome |-> "return", value |-> PyNone]

\* The body of retrieve_koji_build_target, getTaskRequest answering answer.
RetrieveKojiBuildTarget(answer) ==
    LET task_request == answer.value
    IN  IF answer.fault # ""
        THEN [outcome |-> answer.fault, value |-> PyNone]
        ELSE IF task_request.kind = "list" /\ Len(task_request.items) > 1
                    /\ task_request.items[2].kind = "str"
        THEN [outcome |-> "return", value |-> task_request.items[2]]
        ELSE [outcome |-> "return", value |-> PyNone]

\* A fallback that is taken for a missing key only.
SourceFallbackKeyError == {"KeyError"}

\* except (TypeError, KeyError, AttributeError)
SourceFallbackCatches == {"TypeError", "KeyError", "AttributeError"}

\* build["extra"]["source"]["original_url"]
NestedOriginalUrl(build) ==
    LET extra == Subscript(build, "extra")
        source == IF extra.exc = "" THEN Subscript(extra.value, "source")
                  ELSE extra
    IN  IF source.exc = "" THEN Subscript(source.value, "original_url")
        ELSE source

\* The body of retrieve_koji_task_id_and_source, getBuild answering answer.
RetrieveKojiTaskIdAndSource(answer) ==
    LET build == answer.value
        nested == NestedOriginalUrl(build)
    IN  IF answer.fault # ""
        THEN [outcome |-> answer.fault, value |-> PyNone]
        ELSE IF ~PyTruthy(build)
        THEN [outcome |-> "NotFound", value |-> PyNone]
        ELSE IF nested.exc = ""
        THEN [outcome |-> "return",
              value |-> PyTuple(<<DictGet(build, "task_id"), nested.value>>)]
        ELSE IF nested.exc \in SourceFallbackCatches
        THEN [outcome |-> "return",
              value |-> PyTuple(<<DictGet(build, "task_id"),
                                  DictGet(build, "source")>>)]
        ELSE [outcome |-> nested.exc, value |-> PyNone]

KojiKey(fn, nvr, koji_url) ==
    "greenwave.resources:" \o fn \o "|" \o nvr \o " " \o koji_url

\* The @cached decorator around a lookup whose body gives res: a value
\* stored under the key of the call is returned without running the body; a
\* value the body returns is stored, an exception is not.
CachedKoji(fn, nvr, koji_url, res) ==
    LET key == KojiKey(fn, nvr, koji_url)
        got == GetExternalCache(key)
    IN  IF got.hit
        THEN [fromMemo |-> TRUE, rpcs |-> 0, outcome |-> "return",
              value |-> got.value, ext |-> extCache]
        ELSE [fromMemo |-> FALSE, rpcs |-> 1, outcome |-> res.outcome,
              value |-> res.value,
              ext |-> IF res.outcome = "return"
                      THEN SetExternalCache(key, res.value)
                      ELSE extCache]

KOJI_BASE_URL == "https://koji.fedoraproject.org/kojihub"

\* The source argument of retrieve_scm_from_koji_build.
AsSource(value) == [isNone |-> value.kind = "none", str |-> value.val]

\* except (xmlrpc.client.ProtocolError, socket.error)
ConnectionFaults == {"ProtocolError", "socket.error"}

\* A wrapper that reports every failure of the lookup as a connection error.
RetrieveScmFromKojiCatchAll(look) ==
    IF look.outcome # "return"
    THEN [outcome |-> "ConnectionError", value |-> PyNone]
    ELSE LET res == RetrieveScmFromKojiBuild(AsSource(look.value.items[2]))
         IN  IF res.outcome = "tuple"
             THEN [outcome |-> "tuple",
                   value |-> PyTuple(<<PyStr(res.namespace), PyStr(res.pkg_name),
                                       PyStr(res.rev)>>)]
             ELSE [outcome |-> res.outcome, value |-> PyNone]

\* retrieve_scm_from_koji, look being what the memoized lookup of the build
\* gives.
RetrieveScmFromKoji(look) ==
    IF look.outcome \in ConnectionFaults
    THEN [outcome |-> "ConnectionError", value |-> PyNone]
    ELSE IF look.outcome # "return"
    THEN [outcome |-> look.outcome, value |-> PyNone]
    ELSE LET res == RetrieveScmFromKojiBuild(AsSource(look.value.items[2]))
         IN  IF res.outcome = "tuple"
             THEN [outcome |-> "tuple",
                   value |-> PyTuple(<<PyStr(res.namespace), PyStr(res.pkg_name),
                                       PyStr(res.rev)>>)]
             ELSE [outcome |-> res.outcome, value |-> PyNone]

NoKojiCall ==
    [op |-> "none", fn |-> "", nvr |-> "", koji_url |-> "",
     answer |-> Returned(PyNone), fromMemo |-> FALSE, rpcs |-> 0,
     outcome |-> "", value |-> PyNone]

\* The values getTaskRequest answers with: scalars, and lists of up to
\* MaxRequestLen elements.
TargetElements ==
    { PyStr(<<"x">>), PyStr(TargetName), PyStr(<<>>), PyInt(<<"5">>), PyNone,
      PyList(<<PyStr(TargetName)>>) }

TaskRequests ==
    { PyNone, PyInt(<<"5">>), PyStr(<<"x", "y">>), PyDict(EmptyMap) }
    \cup { PyList(items) :
            items \in UNION { [1..n -> TargetElements] : n \in 0..MaxRequestLen } }

\* 'git://h/n/p': a source without a fragment.
SourceNoFragment == <<"g", "i", "t", ":", "/", "/", "h", "/", "n", "/", "p">>

\* The values of extra.source.original_url, extra.source and extra.
OriginalUrls == { PyNone, PyStr(ExampleSource), PyStr(<<>>) }

ExtraSources ==
    { PyNone, PyStr(ExampleSource), PyList(<<PyStr(ExampleSource)>>),
      PyDict(EmptyMap) }
    \cup { PyDict([original_url |-> url]) : url \in OriginalUrls }

Extras ==
    { PyNone, PyStr(<<"s">>), PyInt(<<"5">>), PyList(<<>>), PyDict(EmptyMap) }
    \cup { PyDict([source |-> source]) : source \in ExtraSources }

TopSources == { PyNone, PyStr(SourceNoFragment), PyStr(<<>>) }

\* A build record: its id, and the fields of keys.
BuildWith(keys, extra, source) ==
    PyDict([k \in {"id"} \cup keys |->
                CASE k = "id" -> PyInt(<<"1">>)
                  [] k = "task_id" -> PyInt(<<"7">>)
                  [] k = "extra" -> extra
                  [] k = "source" -> source])

\* What getBuild answers with: None for an unknown build, or a record.
Builds ==
    { PyNone }
    \cup { BuildWith(keys, extra, source) :
            keys \in SUBSET {"task_id", "extra", "source"},
            extra \in Extras, source \in TopSources }

KojiNvrs == {"a-1-1", "b-1-1"}

TESTING_KOJI_BASE_URL == "http://localhost:5006/kojihub"

\* The answers of Koji in the runs with repeated lookups.
TaskAnswers ==
    { Raised(fault) : fault \in RpcFaults }
    \cup { Returned(PyNone), Returned(PyList(<<PyStr(<<"x">>)>>)),
           Returned(PyList(<<PyStr(<<"x">>), PyStr(TargetName)>>)) }

BuildAnswers ==
    { Raised(fault) : fault \in RpcFaults }
    \cup { Returned(PyNone),
           Returned(BuildWith({"task_id", "extra"},
                              PyDict([source |->
                                  PyDict([original_url |-> PyStr(ExampleSource)])]),
                              PyNone)),
           Returned(BuildWith({"task_id", "source"}, PyNone,
                              PyStr(SourceNoFragment))),
           Returned(BuildWith({"task_id"}, PyNone, PyNone)) }

NoTriple == [type |-> "", identifier |-> "", testcase |-> ""]

NoKeyQuery ==
    [op |-> "none", a |-> NoTriple, b |-> NoTriple, ka |-> "", kb |-> "",
     served |-> "", items |-> <<>>]

\* The subject types, identifiers and testcase names of the calls whose
\* external cache keys are compared.
KeyTypes == {"koji_build", "compose"}

KeyIdentifiers == {"nvr", "nvr 1", "a"}

KeyTestcases == {"t1", "1 t1"}

KeyTriples ==
    [type : KeyTypes, identifier : KeyIdentifiers, testcase : KeyTestcases]

SubjectOf(triple) == [type |-> triple.type, identifier |-> triple.identifier]

(***************************************************************************)
(* State machine of the retrievers                                         *)
(***************************************************************************)
NoSubject == [type |-> "", identifier |-> ""]

\* No call since the upstream last changed.
NoCall ==
    [op |-> "none", r |-> "", subject |-> NoSubject, testcase |-> NoTestcase,
     status |-> "ok", raw |-> <<>>, out |-> <<>>, served |-> "",
     requests |-> 0, answers |-> <<>>, extRead |-> FALSE, got |-> NoValue,
     extWrite |-> FALSE]

Init ==
    /\ backend \in Backends
    /\ db = <<>>
    /\ wdb = <<>>
    /\ extCache = EmptyMap
    /\ retr = [r \in ResultRetrievers |->
                 [ignore_ids |-> BaseInit(IgnoreIdsOf(r), WhenOf(r)).ignore_ids,
                  since |-> BaseInit(IgnoreIdsOf(r), WhenOf(r)).since,
                  cache |-> EmptyMap]]
    /\ wretr = [w \in WaiverRetrievers |-> BaseInit(IgnoreIdsOf(w), WhenOf(w))]
    /\ last = NoCall
    /\ ycall = NoYamlCall
    /\ scm = NoScmCall
    /\ koji = NoKojiCall
    /\ keyq = NoKeyQuery

\* ResultsDB receives a new result.
SubmitResult ==
    /\ Len(db) < MaxResults
    /\ \E subject \in Subjects, k \in SubmittedKinds :
        LET q == ResultQueries(subject)[k.q]
        IN  db' = Append(db, [id |-> Len(db) + 1, type |-> q.type, item |-> q.item,
                              testcase |-> [name |-> k.testcase],
                              outcome |-> k.outcome,
                              submit_time |-> Len(db) + 1])
    /\ last' = NoCall
    /\ UNCHANGED <<backend, wdb, extCache, retr, wretr, ycall, scm, koji, keyq>>

\* BaseRetriever.retrieve of a ResultsRetriever.
RetrieveResults ==
    \E r \in ResultRetrievers, subject \in Subjects,
       testcase \in CallTestcases :
      \E statuses \in [1..Len(ResultQueries(subject)) -> HttpStatuses] :
        LET res == ResultsRetrieveAll(r, subject, testcase, statuses)
        IN  /\ retr' = [retr EXCEPT ![r].cache = res.cache]
            /\ extCache' = res.ext
            /\ last' = [op |-> "results", r |-> r, subject |-> subject,
                        testcase |-> testcase, status |-> res.status,
                        raw |-> res.items,
                        out |-> IF res.status = "ok"
                                THEN IgnoreFilter(res.items, retr[r].ignore_ids)
                                ELSE <<>>,
                        served |-> res.served, requests |-> res.requests,
                        answers |-> SubSeq(statuses, 1, res.requests),
                        extRead |-> res.extRead, got |-> res.got,
                        extWrite |-> res.extWrite]
            /\ UNCHANGED <<backend, db, wdb, wretr, ycall, scm, koji, keyq>>

Next ==
    \/ SubmitResult
    \/ RetrieveResults

Spec == Init /\ [][Next]_vars

\* WaiverDB changes: waivers are added, rescinded or withdrawn.
ChangeWaivers ==
    /\ \E ws \in WaiverLists : ws # wdb /\ wdb' = ws
    /\ last' = NoCall
    /\ UNCHANGED <<backend, db, extCache, retr, wretr, ycall, scm, koji, keyq>>

\* BaseRetriever.retrieve of a WaiversRetriever.
RetrieveWaivers ==
    \E w \in WaiverRetrievers, filters \in FilterLists, status \in HttpStatuses :
        LET res == WaiversRetrieveAll(w, filters, status)
        IN  /\ extCache' = res.ext
            /\ last' = [op |-> "waivers", r |-> w, subject |-> NoSubject,
                        testcase |-> NoTestcase, status |-> res.status,
                        raw |-> res.items,
                        out |-> IF res.status = "ok"
                                THEN IgnoreFilter(res.items, wretr[w].ignore_ids)
                                ELSE <<>>,
                        served |-> res.served, requests |-> res.requests,
                        answers |-> <<status>>,
                        extRead |-> res.extRead, got |-> res.got,
                        extWrite |-> res.extWrite]
            /\ UNCHANGED <<backend, db, wdb, retr, wretr, ycall, scm, koji, keyq>>

NextWaivers ==
    \/ ChangeWaivers
    \/ RetrieveWaivers

SpecWaivers == Init /\ [][NextWaivers]_vars

\* A call of retrieve_yaml_remote_rule(url).
RetrieveYaml ==
    \E url \in Urls, headStatus \in HeadStatuses, getStatus \in GetStatuses,
       body \in Bodies :
        LET res == CachedYamlRemoteRule(url, headStatus, getStatus, body)
        IN  /\ extCache' = res.ext
            /\ ycall' = [op |-> "yaml", url |-> url, fromMemo |-> res.fromMemo,
                         heads |-> res.heads, gets |-> res.gets,
                         headStatus |-> IF res.heads > 0 THEN headStatus ELSE 0,
                         getStatus |-> IF res.gets > 0 THEN getStatus ELSE 0,
                         body |-> IF res.gets > 0 /\ ~RaisesForStatus(getStatus)
                                  THEN body ELSE "",
                         outcome |-> res.outcome, content |-> res.content]
            /\ UNCHANGED <<backend, db, wdb, retr, wretr, last, scm, koji, keyq>>

NextYaml == RetrieveYaml

SpecYaml == Init /\ [][NextYaml]_vars

\* The caller holds the source of a build.
InitScm ==
    /\ backend \in Backends
    /\ db = <<>>
    /\ wdb = <<>>
    /\ extCache = EmptyMap
    /\ retr = [r \in ResultRetrievers |->
                 [ignore_ids |-> BaseInit(IgnoreIdsOf(r), WhenOf(r)).ignore_ids,
                  since |-> BaseInit(IgnoreIdsOf(r), WhenOf(r)).since,
                  cache |-> EmptyMap]]
    /\ wretr = [w \in WaiverRetrievers |-> BaseInit(IgnoreIdsOf(w), WhenOf(w))]
    /\ last = NoCall
    /\ ycall = NoYamlCall
    /\ \E source \in Sources : scm = [NoScmCall EXCEPT !.op = "pending",
                                                        !.source = source]
    /\ koji = NoKojiCall
    /\ keyq = NoKeyQuery

\* The call of retrieve_scm_from_koji_build on that source.
RetrieveScm ==
    /\ scm.op = "pending"
    /\ LET res == RetrieveScmFromKojiBuild(scm.source)
       IN  scm' = [op |-> "scm", source |-> scm.source, outcome |-> res.outcome,
                   namespace |-> res.namespace, pkg_name |-> res.pkg_name,
                   rev |-> res.rev]
    /\ UNCHANGED <<backend, db, wdb, extCache, retr, wretr, last, ycall, koji, keyq>>

NextScm == RetrieveScm

SpecScm == InitScm /\ [][NextScm]_vars

\* A call of retrieve_koji_build_target(nvr, koji_url).
KojiBuildTarget(nvr, koji_url, answer) ==
    LET res == CachedKoji("retrieve_koji_build_target", nvr, koji_url,
                          RetrieveKojiBuildTarget(answer))
    IN  /\ extCache' = res.ext
        /\ koji' = [op |-> "target", fn |-> "retrieve_koji_build_target",
                    nvr |-> nvr, koji_url |-> koji_url,
                    answer |-> IF res.rpcs > 0 THEN answer ELSE Returned(PyNone),
                    fromMemo |-> res.fromMemo, rpcs |-> res.rpcs,
                    outcome |-> res.outcome, value |-> res.value]
        /\ UNCHANGED <<backend, db, wdb, retr, wretr, last, ycall, scm, keyq>>

\* A call of retrieve_koji_task_id_and_source(nvr, koji_url).
KojiTaskIdAndSource(nvr, koji_url, answer) ==
    LET res == CachedKoji("retrieve_koji_task_id_and_source", nvr, koji_url,
                          RetrieveKojiTaskIdAndSource(answer))
    IN  /\ extCache' = res.ext
        /\ koji' = [op |-> "build", fn |-> "retrieve_koji_task_id_and_source",
                    nvr |-> nvr, koji_url |-> koji_url,
                    answer |-> IF res.rpcs > 0 THEN answer ELSE Returned(PyNone),
                    fromMemo |-> res.fromMemo, rpcs |-> res.rpcs,
                    outcome |-> res.outcome, value |-> res.value]
        /\ UNCHANGED <<backend, db, wdb, retr, wretr, last, ycall, scm, keyq>>

\* A call of retrieve_scm_from_koji(nvr).
ScmFromKoji(nvr, answer) ==
    LET look == CachedKoji("retrieve_koji_task_id_and_source", nvr,
                           KOJI_BASE_URL, RetrieveKojiTaskIdAndSource(answer))
        res == RetrieveScmFromKoji(look)
    IN  /\ extCache' = look.ext
        /\ koji' = [op |-> "scm", fn |-> "retrieve_scm_from_koji",
                    nvr |-> nvr, koji_url |-> KOJI_BASE_URL,
                    answer |-> IF look.rpcs > 0 THEN answer ELSE Returned(PyNone),
                    fromMemo |-> look.fromMemo, rpcs |-> look.rpcs,
                    outcome |-> res.outcome, value |-> res.value]
        /\ UNCHANGED <<backend, db, wdb, retr, wretr, last, ycall, scm, keyq>>

LookupTarget ==
    \E nvr \in KojiNvrs, answer \in TaskAnswers :
        KojiBuildTarget(nvr, KOJI_BASE_URL, answer)

LookupBuild ==
    \E koji_url \in {KOJI_BASE_URL, TESTING_KOJI_BASE_URL},
       answer \in BuildAnswers :
        KojiTaskIdAndSource("a-1-1", koji_url, answer)

LookupScm ==
    \E nvr \in KojiNvrs, answer \in BuildAnswers : ScmFromKoji(nvr, answer)

NextKoji ==
    \/ LookupTarget
    \/ LookupBuild
    \/ LookupScm

SpecKoji == Init /\ [][NextKoji]_vars

\* The caller is about to look a build up, and Koji is about to answer.
InitKojiShapes ==
    /\ backend \in Backends
    /\ db = <<>>
    /\ wdb = <<>>
    /\ extCache = EmptyMap
    /\ retr = [r \in ResultRetrievers |->
                 [ignore_ids |-> BaseInit(IgnoreIdsOf(r), WhenOf(r)).ignore_ids,
                  since |-> BaseInit(IgnoreIdsOf(r), WhenOf(r)).since,
                  cache |-> EmptyMap]]
    /\ wretr = [w \in WaiverRetrievers |-> BaseInit(IgnoreIdsOf(w), WhenOf(w))]
    /\ last = NoCall
    /\ ycall = NoYamlCall
    /\ scm = NoScmCall
    /\ keyq = NoKeyQuery
    /\ \/ \E task_request \in TaskRequests :
            koji = [NoKojiCall EXCEPT !.op = "pending",
                        !.fn = "retrieve_koji_build_target",
                        !.nvr = "a-1-1", !.koji_url = KOJI_BASE_URL,
                        !.answer = Returned(task_request)]
       \/ \E build \in Builds :
            koji = [NoKojiCall EXCEPT !.op = "pending",
                        !.fn = "retrieve_koji_task_id_and_source",
                        !.nvr = "a-1-1", !.koji_url = KOJI_BASE_URL,
                        !.answer = Returned(build)]

ShapeTarget ==
    /\ koji.op = "pending" /\ koji.fn = "retrieve_koji_build_target"
    /\ KojiBuildTarget(koji.nvr, koji.koji_url, koji.answer)

ShapeBuild ==
    /\ koji.op = "pending" /\ koji.fn = "retrieve_koji_task_id_and_source"
    /\ KojiTaskIdAndSource(koji.nvr, koji.koji_url, koji.answer)

NextKojiShapes ==
    \/ ShapeTarget
    \/ ShapeBuild

SpecKojiShapes == InitKojiShapes /\ [][NextKojiShapes]_vars

\* The retrievers of a request that asks for the decision as of an earlier
\* time: the second instance is made with when = 1.
InitNarrow ==
    /\ backend \in Backends
    /\ db = <<>>
    /\ wdb = <<>>
    /\ extCache = EmptyMap
    /\ retr = [r \in ResultRetrievers |->
                 [ignore_ids |-> BaseInit(IgnoreIdsOf(r), NarrowWhenOf(r)).ignore_ids,
                  since |-> BaseInit(IgnoreIdsOf(r), NarrowWhenOf(r)).since,
                  cache |-> EmptyMap]]
    /\ wretr = [w \in WaiverRetrievers |-> BaseInit(IgnoreIdsOf(w), WhenOf(w))]
    /\ last = NoCall
    /\ ycall = NoYamlCall
    /\ scm = NoScmCall
    /\ koji = NoKojiCall
    /\ keyq = NoKeyQuery

SpecNarrow == InitNarrow /\ [][Next]_vars

\* ResultsDB holds one passing result of the first of two (subject,
\* testcase) pairs that are about to be retrieved one after the other.
InitKeys ==
    /\ backend \in Backends
    /\ wdb = <<>>
    /\ extCache = EmptyMap
    /\ retr = [r \in ResultRetrievers |->
                 [ignore_ids |-> BaseInit(IgnoreIdsOf(r), WhenOf(r)).ignore_ids,
                  since |-> BaseInit(IgnoreIdsOf(r), WhenOf(r)).since,
                  cache |-> EmptyMap]]
    /\ wretr = [w \in WaiverRetrievers |-> BaseInit(IgnoreIdsOf(w), WhenOf(w))]
    /\ last = NoCall
    /\ ycall = NoYamlCall
    /\ scm = NoScmCall
    /\ koji = NoKojiCall
    /\ \E a \in KeyTriples, b \in KeyTriples :
        /\ keyq = [NoKeyQuery EXCEPT !.op = "pending", !.a = a, !.b = b]
        /\ db = << [id |-> 1, type |-> ResultQueries(SubjectOf(a))[1].type,
                    item |-> ResultQueries(SubjectOf(a))[1].item,
                    testcase |-> [name |-> a.testcase], outcome |-> "PASSED",
                    submit_time |-> 1] >>

\* retrieve(subject, testcase) of the first pair on the instance r1.
RetrieveFirst ==
    /\ keyq.op = "pending"
    /\ LET res == ResultsRetrieveAll("r1", SubjectOf(keyq.a), keyq.a.testcase,
                                     AllOk(SubjectOf(keyq.a)))
       IN  /\ retr' = [retr EXCEPT !["r1"].cache = res.cache]
           /\ extCache' = res.ext
           /\ keyq' = [keyq EXCEPT
                        !.op = "first",
                        !.ka = ExternalCacheKey(SubjectOf(keyq.a), keyq.a.testcase),
                        !.served = res.served, !.items = res.items]
    /\ UNCHANGED <<backend, db, wdb, wretr, last, ycall, scm, koji>>

\* retrieve(subject, testcase) of the second pair on the instance r1.
RetrieveSecond ==
    /\ keyq.op = "first"
    /\ LET res == ResultsRetrieveAll("r1", SubjectOf(keyq.b), keyq.b.testcase,
                                     AllOk(SubjectOf(keyq.b)))
       IN  /\ retr' = [retr EXCEPT !["r1"].cache = res.cache]
           /\ extCache' = res.ext
           /\ keyq' = [keyq EXCEPT
                        !.op = "second",
                        !.kb = ExternalCacheKey(SubjectOf(keyq.b), keyq.b.testcase),
                        !.served = res.served, !.items = res.items]
    /\ UNCHANGED <<backend, db, wdb, wretr, last, ycall, scm, koji>>

NextKeys ==
    \/ RetrieveFirst
    \/ RetrieveSecond

SpecKeys == InitKeys /\ [][NextKeys]_vars

(***************************************************************************)
(* Properties of the retrievers                                            *)
(***************************************************************************)
IgnoreIdsOfLast ==
    IF last.op = "results" THEN retr[last.r].ignore_ids
    ELSE IF last.op = "waivers" THEN wretr[last.r].ignore_ids
    ELSE {}

RECURSIVE KeepNotIgnored(_, _)
KeepNotIgnored(items, ids) ==
    IF items = <<>> THEN <<>>
    ELSE (IF Head(items).id \in ids THEN <<>> ELSE <<Head(items)>>)
            \o KeepNotIgnored(Tail(items), ids)

\* C1: the list a retrieve call returns holds no item whose id is in
\* ignore_ids, and it holds every other item of the underlying sequence
\* (in-process cache, external cache or upstream response), in order.
C1_RetrieveDropsIgnoredIds ==
    (last.op # "none" /\ last.status = "ok") =>
        /\ \A i \in 1..Len(last.out) : last.out[i].id \notin IgnoreIdsOfLast
        /\ last.out = KeepNotIgnored(last.raw, IgnoreIdsOfLast)

\* An instance that ignores id 1 answers from its in-process cache, which
\* holds the ignored result and another one.
C1_Witness ==
    /\ last.op = "results" /\ last.status = "ok" /\ last.served = "inproc"
    /\ Len(last.raw) = 2 /\ Len(last.out) = 1
    /\ \E i \in 1..2 : last.raw[i].id \in retr[last.r].ignore_ids

\* C2: a retrieve with a testcase, repeated with no upstream change, returns
\* the same output, and if the first call left its results in the external
\* cache the repeat issues no upstream request.
C2_RetrieveIdempotent ==
    (last.op = "results" /\ last.status = "ok" /\ last.testcase # NoTestcase) =>
        LET key == ExternalCacheKey(last.subject, last.testcase)
            populated == /\ last.extWrite
                         /\ key \in DOMAIN extCache
                         /\ extCache[key] = last.raw
        IN  \A statuses \in [1..Len(ResultQueries(last.subject)) -> HttpStatuses] :
              LET again == ResultsRetrieveAll(last.r, last.subject,
                                              last.testcase, statuses)
              IN  /\ again.status = "ok" =>
                        IgnoreFilter(again.items, retr[last.r].ignore_ids) = last.out
                  /\ populated => (again.status = "ok" /\ again.requests = 0)

\* C3: the external cache holds passing results only, and it is written
\* only by a retrieve with a testcase that was answered by upstream and
\* whose merged results all passed; it then holds exactly these results.
C3_ExternalCacheOnlyPassing ==
    /\ [](\A k \in ResultsKeys \cap DOMAIN extCache : \A i \in 1..Len(extCache[k]) :
            extCache[k][i].outcome \in OUTCOMES_PASSED)
    /\ [][(extCache' # extCache \/ (last'.op = "results" /\ last'.extWrite)) =>
            /\ last'.op = "results"
            /\ last'.status = "ok"
            /\ last'.testcase # NoTestcase
            /\ last'.served = "upstream"
            /\ \A i \in 1..Len(last'.raw) : last'.raw[i].outcome \in OUTCOMES_PASSED
            /\ extCache' \in
                 {extCache,
                  Put(extCache, ExternalCacheKey(last'.subject, last'.testcase),
                      last'.raw)}]_vars

\* A retrieve with a testcase has just stored two passing results.
C3_Witness ==
    /\ last.op = "results" /\ last.extWrite /\ Len(last.raw) = 2
    /\ ExternalCacheKey(last.subject, last.testcase) \in DOMAIN extCache
    /\ extCache[ExternalCacheKey(last.subject, last.testcase)] = last.raw

\* C4: when the external cache holds an entry for the key, a retriever with
\* a since bound uses it only if every cached submit_time is below the upper
\* edge and re-queries upstream otherwise; a retriever without a since bound
\* always returns the entry without querying upstream.
C4_StalenessValidation ==
    (last.op = "results" /\ last.testcase # NoTestcase
        /\ last.served # "inproc" /\ last.got.hit) =>
        LET since == retr[last.r].since
            cached == last.got.value
        IN  IF since = NoSince
            THEN last.served = "external" /\ last.requests = 0 /\ last.raw = cached
            ELSE /\ last.served = "external" =>
                        \A i \in 1..Len(cached) : cached[i].submit_time < since[2]
                 /\ (\E i \in 1..Len(cached) : cached[i].submit_time >= since[2]) =>
                        (last.served = "upstream" /\ last.requests >= 1)

\* C5: an empty list received from upstream by a retrieve with a testcase is
\* stored in the external cache, and a repeat of the call is served the
\* empty list from the cache without an upstream request.
C5_EmptyResultCached ==
    (backend = "memory" /\ last.op = "results" /\ last.status = "ok"
        /\ last.testcase # NoTestcase /\ last.served = "upstream"
        /\ last.raw = <<>>) =>
        LET key == ExternalCacheKey(last.subject, last.testcase)
            again == ResultsRetrieveAll(last.r, last.subject, last.testcase,
                                        AllOk(last.subject))
        IN  /\ key \in DOMAIN extCache
            /\ extCache[key] = <<>>
            /\ again.served = "external"
            /\ again.requests = 0
            /\ again.items = <<>>

RECURSIVE KeepWaived(_)
KeepWaived(waivers) ==
    IF waivers = <<>> THEN <<>>
    ELSE (IF Head(waivers).waived THEN <<Head(waivers)>> ELSE <<>>)
            \o KeepWaived(Tail(waivers))

\* C6: a WaiversRetriever.retrieve returns no waiver whose waived field is
\* false, and returns every waived waiver of the response whose id is not
\* ignored, in order.
C6_OnlyWaivedReturned ==
    (last.op = "waivers" /\ last.status = "ok") =>
        /\ \A i \in 1..Len(last.out) : last.out[i].waived
        /\ last.out = KeepNotIgnored(KeepWaived(wdb), wretr[last.r].ignore_ids)

\* WaiverDB answered with a waived and an unwaived waiver; one is returned.
C6_Witness ==
    /\ last.op = "waivers" /\ last.status = "ok"
    /\ \E i, j \in 1..Len(wdb) : wdb[i].waived /\ ~wdb[j].waived
    /\ Len(last.out) = 1

\* C7: every WaiversRetriever.retrieve issues exactly one POST and neither
\* reads nor writes a cache, so what it returns is what WaiverDB holds at
\* the time of the call.
C7_WaiversNeverCached ==
    /\ [](last.op = "waivers" =>
            /\ last.requests = 1
            /\ ~last.extRead /\ ~last.extWrite
            /\ last.served = "upstream"
            /\ last.status = "ok" => last.raw = KeepWaived(wdb))
    /\ [][last'.op = "waivers" => (extCache' = extCache /\ retr' = retr)]_vars

\* A retrieve has answered from a WaiverDB that holds a waived waiver.
C7_Witness ==
    /\ last.op = "waivers" /\ last.status = "ok" /\ last.requests = 1
    /\ last.raw # <<>> /\ extCache = EmptyMap

(***************************************************************************)
(* Properties of retrieve_yaml_remote_rule                                 *)
(***************************************************************************)
\* C8 as stated: a call that runs the function issues one HEAD; 404 gives
\* None and no GET, another non-2xx status gives BadGateway and no GET, any
\* 2xx status makes it issue the GET, whose body it returns unless the GET
\* fails; no GET without a successful HEAD.
C8_HeadDecidesAny2xx ==
    (ycall.op = "yaml" /\ ~ycall.fromMemo) =>
        /\ ycall.heads = 1
        /\ ycall.headStatus = 404 => (ycall.outcome = "None" /\ ycall.gets = 0)
        /\ (ycall.headStatus # 404 /\ ycall.headStatus \notin 200..299) =>
                (ycall.outcome = "BadGateway" /\ ycall.gets = 0)
        /\ ycall.headStatus \in 200..299 =>
                /\ ycall.gets = 1
                /\ ~RaisesForStatus(ycall.getStatus) =>
                        (ycall.outcome = "content" /\ ycall.content = ycall.body)
        /\ ycall.gets > 0 => ycall.headStatus \in 200..299

\* C8, amended: a call that is not answered from the memo issues one HEAD;
\* 404 gives None and no GET; every other status except 200, the other 2xx
\* included, gives BadGateway and no GET; 200 makes it issue one GET, whose
\* body it returns, or whose error status it raises. A call answered from
\* the memo issues no request. No GET without a HEAD answered 200.
C8_HeadDecides ==
    /\ (ycall.op = "yaml" /\ ~ycall.fromMemo) =>
        /\ ycall.heads = 1
        /\ ycall.headStatus = 404 => (ycall.outcome = "None" /\ ycall.gets = 0)
        /\ ycall.headStatus \notin {404, 200} =>
                (ycall.outcome = "BadGateway" /\ ycall.gets = 0)
        /\ ycall.headStatus = 200 =>
                /\ ycall.gets = 1
                /\ IF RaisesForStatus(ycall.getStatus)
                   THEN ycall.outcome = "HTTPError"
                   ELSE ycall.outcome = "content" /\ ycall.content = ycall.body
    /\ (ycall.op = "yaml" /\ ycall.fromMemo) =>
            (ycall.heads = 0 /\ ycall.gets = 0)
    /\ ycall.gets > 0 => (ycall.heads = 1 /\ ycall.headStatus = 200)

\* The HEAD was answered 204: BadGateway, and no GET.
C8_Witness ==
    /\ ycall.op = "yaml" /\ ~ycall.fromMemo /\ ycall.headStatus = 204
    /\ ycall.outcome = "BadGateway" /\ ycall.gets = 0

(***************************************************************************)
(* Properties of retrieve_scm_from_koji_build                              *)
(***************************************************************************)
PathSegments == Split(UrlParse(scm.source.str).path, "/")

HasSourceAndFragment ==
    /\ ~scm.source.isNone
    /\ scm.source.str # <<>>
    /\ UrlParse(scm.source.str).fragment # <<>>

\* C9: for a non-empty source with a non-empty fragment the call returns
\* (namespace, package name, revision): the revision is the fragment, the
\* package name is the last path segment without one trailing '.git', the
\* namespace is the second-to-last path segment if the path has at least
\* three segments and is empty otherwise.
C9_ScmTuple ==
    (scm.op = "scm" /\ HasSourceAndFragment) =>
        LET n == Len(PathSegments)
            last_segment == PathSegments[n]
        IN  /\ scm.outcome = "tuple"
            /\ scm.rev = UrlParse(scm.source.str).fragment
            /\ scm.namespace = IF n >= 3 THEN PathSegments[n - 1] ELSE <<>>
            /\ IF EndsWithDotGit(last_segment)
               THEN scm.pkg_name \o DotGit = last_segment
               ELSE scm.pkg_name = last_segment

\* 'https://host/ns/pkg.git#abc123' gives ('ns', 'pkg', 'abc123').
C9_Witness ==
    /\ scm.op = "scm" /\ scm.source.str = ExampleSource
    /\ scm.outcome = "tuple"
    /\ scm.namespace = <<"n", "s">>
    /\ scm.pkg_name = <<"p", "k", "g">>
    /\ scm.rev = <<"a", "b", "c", "1", "2", "3">>

\* C10: a null or empty source raises NoSourceException, a non-empty source
\* without a fragment raises BadGateway, and a tuple is returned only for a
\* non-empty source with a non-empty fragment.
C10_ScmErrors ==
    scm.op = "scm" =>
        /\ (scm.source.isNone \/ scm.source.str = <<>>) =>
                scm.outcome = "NoSourceException"
        /\ (~scm.source.isNone /\ scm.source.str # <<>>
                /\ UrlParse(scm.source.str).fragment = <<>>) =>
                scm.outcome = "BadGateway"
        /\ scm.outcome = "tuple" => HasSourceAndFragment
        /\ scm.outcome \in {"NoSourceException", "BadGateway"} =>
                (scm.namespace = <<>> /\ scm.pkg_name = <<>> /\ scm.rev = <<>>)

\* A source with a path and a query but no fragment: BadGateway.
C10_Witness ==
    /\ scm.op = "scm" /\ scm.outcome = "BadGateway"
    /\ scm.source.str = <<"/", "n", "/", "p", ".", "g", "i", "t", "?", "q">>

(***************************************************************************)
(* Properties of the Koji lookups                                          *)
(***************************************************************************)
\* C11: retrieve_koji_build_target returns the second element of the task
\* request exactly when the request is a list of more than one element
\* whose second element is a string; for None, a value that is no list, a
\* list of length 0 or 1 and a second element that is no string it returns
\* None and raises nothing. ['x'] gives None, ['x', 'f30'] gives 'f30' and
\* ['x', 5] gives None.
C11_TargetResolution ==
    (koji.op = "target" /\ ~koji.fromMemo /\ koji.answer.fault = "") =>
        LET task_request == koji.answer.value
            x == PyStr(<<"x">>)
        IN  /\ koji.outcome = "return"
            /\ koji.rpcs = 1
            /\ koji.value # PyNone <=>
                    /\ task_request.kind = "list"
                    /\ Len(task_request.items) >= 2
                    /\ task_request.items[2].kind = "str"
            /\ koji.value # PyNone => koji.value = task_request.items[2]
            /\ task_request = PyList(<<x>>) => koji.value = PyNone
            /\ task_request = PyList(<<x, PyStr(TargetName)>>) =>
                    koji.value = PyStr(TargetName)
            /\ task_request = PyList(<<x, PyInt(<<"5">>)>>) => koji.value = PyNone

\* getTaskRequest answered ['x', 5]: the target is None.
C11_Witness ==
    /\ koji.op = "target" /\ koji.rpcs = 1 /\ koji.outcome = "return"
    /\ koji.answer = Returned(PyList(<<PyStr(<<"x">>), PyInt(<<"5">>)>>))
    /\ koji.value = PyNone

\* The nested path extra.source.original_url of a build record can be read.
NestedReadable(build) ==
    /\ "extra" \in DOMAIN build.fields
    /\ build.fields["extra"].kind = "dict"
    /\ "source" \in DOMAIN build.fields["extra"].fields
    /\ build.fields["extra"].fields["source"].kind = "dict"
    /\ "original_url" \in DOMAIN build.fields["extra"].fields["source"].fields

ExpectedSource(build) ==
    IF NestedReadable(build)
    THEN build.fields["extra"].fields["source"].fields["original_url"]
    ELSE IF "source" \in DOMAIN build.fields THEN build.fields["source"]
    ELSE PyNone

ExpectedTaskId(build) ==
    IF "task_id" \in DOMAIN build.fields THEN build.fields["task_id"] ELSE PyNone

\* C12: retrieve_scm_from_koji keeps the error kinds apart. A ProtocolError
\* or socket error of getBuild becomes ConnectionError, and nothing else
\* does; a missing build gives NotFound, not a connection, no-source or
\* gateway error; a build that exists without a source gives
\* NoSourceException, not NotFound. Every failure reaches the caller: a
\* failed lookup returns no tuple, is not stored and is asked for once.
C12_ScmFromKojiErrorKinds ==
    koji.op = "scm" =>
        LET answer == koji.answer
            build == answer.value
            key == KojiKey("retrieve_koji_task_id_and_source", koji.nvr,
                           koji.koji_url)
        IN  /\ koji.rpcs = IF koji.fromMemo THEN 0 ELSE 1
            /\ ~koji.fromMemo =>
                /\ answer.fault \in {"ProtocolError", "socket.error"} <=>
                        koji.outcome = "ConnectionError"
                /\ answer.fault = "Fault" <=> koji.outcome = "Fault"
                /\ (answer.fault = "" /\ build = PyNone) <=>
                        koji.outcome = "NotFound"
                /\ (answer.fault = "" /\ build # PyNone
                        /\ ExpectedSource(build) \in {PyNone, PyStr(<<>>)}) <=>
                        koji.outcome = "NoSourceException"
                /\ koji.outcome \in {"ConnectionError", "Fault", "NotFound"} =>
                        key \notin DOMAIN extCache
            /\ koji.fromMemo =>
                    koji.outcome \in {"tuple", "NoSourceException", "BadGateway"}
            /\ koji.outcome # "tuple" => koji.value = PyNone

\* Koji does not know the build: NotFound reaches the caller.
C12_Witness ==
    /\ koji.op = "scm" /\ koji.rpcs = 1
    /\ koji.answer = Returned(PyNone)
    /\ koji.outcome = "NotFound"

\* C13: for every build record that exists, retrieve_koji_task_id_and_source
\* raises nothing and returns the task id with, as the source, the field
\* extra.source.original_url when that path can be read, the top-level
\* source field when it cannot (a missing key, or a value on the path that
\* is no dict), and None when there is neither.
C13_SourceExtraction ==
    (koji.op = "build" /\ ~koji.fromMemo /\ koji.answer.fault = ""
        /\ koji.answer.value # PyNone) =>
        LET build == koji.answer.value
        IN  /\ koji.outcome = "return"
            /\ koji.value = PyTuple(<<ExpectedTaskId(build), ExpectedSource(build)>>)
            /\ (~NestedReadable(build) /\ "source" \notin DOMAIN build.fields) =>
                    koji.value.items[2] = PyNone

\* extra is a string, so the path cannot be read: the top-level source.
C13_Witness ==
    /\ koji.op = "build" /\ koji.outcome = "return"
    /\ koji.answer = Returned(BuildWith({"extra", "source"}, PyStr(<<"s">>),
                                        PyStr(SourceNoFragment)))
    /\ koji.value = PyTuple(<<PyNone, PyStr(SourceNoFragment)>>)

\* What the body of the lookup of the last call gives when Koji answers.
KojiBody(answer) ==
    IF koji.op = "target" THEN RetrieveKojiBuildTarget(answer)
    ELSE RetrieveKojiTaskIdAndSource(answer)

KojiAnswers == IF koji.op = "target" THEN TaskAnswers ELSE BuildAnswers

\* C14 as stated: after a call of retrieve_koji_build_target or
\* retrieve_koji_task_id_and_source that returned, a second call with the
\* same build reference and service URL returns the same value and issues
\* no RPC, whatever Koji would answer.
C14_KojiMemoized ==
    (koji.op \in {"target", "build"} /\ koji.outcome = "return") =>
        \A answer \in KojiAnswers :
            LET again == CachedKoji(koji.fn, koji.nvr, koji.koji_url,
                                    KojiBody(answer))
            IN  /\ again.rpcs = 0
                /\ again.outcome = "return"
                /\ again.value = koji.value

\* C14, amended: with a cache backend that stores values the second call
\* returns the same value and issues no RPC; with the null backend, the
\* default of Config.CACHE, the second call issues the RPC again and
\* returns or raises what the body gives for the new answer.
C14_KojiMemoizedWhenStored ==
    (koji.op \in {"target", "build"} /\ koji.outcome = "return") =>
        \A answer \in KojiAnswers :
            LET again == CachedKoji(koji.fn, koji.nvr, koji.koji_url,
                                    KojiBody(answer))
            IN  IF backend = "memory"
                THEN /\ again.rpcs = 0
                     /\ again.outcome = "return"
                     /\ again.value = koji.value
                ELSE /\ again.rpcs = 1
                     /\ again.outcome = KojiBody(answer).outcome
                     /\ again.value = KojiBody(answer).value

\* A lookup of a build was answered from the memo: no RPC.
C14_Witness ==
    /\ backend = "memory"
    /\ koji.op = "build" /\ koji.fromMemo /\ koji.rpcs = 0
    /\ koji.outcome = "return" /\ koji.value.items[2] = PyStr(ExampleSource)

(***************************************************************************)
(* Properties of the caches of ResultsRetriever                            *)
(***************************************************************************)
RECURSIVE KeepTestcase(_, _)
KeepTestcase(results, testcase) ==
    IF results = <<>> THEN <<>>
    ELSE (IF Head(results).testcase.name = testcase THEN <<Head(results)>>
          ELSE <<>>) \o KeepTestcase(Tail(results), testcase)

LastKey == CacheKey(last.subject)

\* The results in ResultsDB that a query of the subject finds inside the
\* since window.
FoundUpstream(res, subject, since) ==
    /\ \E i \in 1..Len(ResultQueries(subject)) :
            /\ res.type = ResultQueries(subject)[i].type
            /\ res.item = ResultQueries(subject)[i].item
    /\ since # NoSince => (since[1] <= res.submit_time /\ res.submit_time <= since[2])

\* C15: a retrieve with a testcase on an instance whose in-process cache
\* holds the subject returns the cached results of that testcase, in cached
\* order and without the ignored ids, issues no upstream request, does not
\* read or write the external cache and changes no cache; no other call is
\* answered from the in-process cache.
C15_InProcessHit ==
    /\ [](last.op = "results" =>
            /\ last.served = "inproc" <=>
                    (last.testcase # NoTestcase
                        /\ LastKey \in DOMAIN retr[last.r].cache)
            /\ last.served = "inproc" =>
                    /\ last.status = "ok"
                    /\ last.raw = KeepTestcase(retr[last.r].cache[LastKey],
                                               last.testcase)
                    /\ last.out = KeepNotIgnored(last.raw, retr[last.r].ignore_ids)
                    /\ last.requests = 0
                    /\ ~last.extRead /\ ~last.extWrite)
    /\ [][(last'.op = "results" /\ last'.served = "inproc") =>
            (extCache' = extCache /\ retr' = retr)]_vars

\* The cache holds a t1 and a t2 result; the call for t1 gets the first.
C15_Witness ==
    /\ last.op = "results" /\ last.served = "inproc" /\ last.testcase = "t1"
    /\ Len(retr[last.r].cache[LastKey]) = 2
    /\ Len(last.raw) = 1
    /\ \E i \in 1..2 : retr[last.r].cache[LastKey][i].testcase.name = "t2"

\* C16: the in-process cache of an instance changes only in a successful
\* retrieve without testcase on that instance, which sets the entry of the
\* subject to the complete merged upstream result; a retrieve with a
\* testcase leaves it unchanged; a retrieve without testcase always queries
\* upstream and reads no cache.
C16_InProcessCachePopulation ==
    /\ [](\A r \in ResultRetrievers : \A key \in DOMAIN retr[r].cache :
            \E subject \in Subjects : key = CacheKey(subject))
    /\ []((last.op = "results" /\ last.testcase = NoTestcase) =>
            /\ last.served = "upstream"
            /\ last.requests >= 1
            /\ ~last.extRead /\ ~last.extWrite
            /\ last.status = "ok" =>
                /\ last.requests = Len(ResultQueries(last.subject))
                /\ LastKey \in DOMAIN retr[last.r].cache
                /\ retr[last.r].cache[LastKey] = last.raw
                /\ last.raw = MergedResults(last.subject, retr[last.r].since,
                                            NoTestcase,
                                            Len(ResultQueries(last.subject)))
                /\ \A i \in 1..Len(db) :
                        FoundUpstream(db[i], last.subject, retr[last.r].since)
                            <=> \E j \in 1..Len(last.raw) : last.raw[j] = db[i])
    /\ [][\A r \in ResultRetrievers : retr'[r].cache # retr[r].cache =>
            /\ last'.op = "results" /\ last'.r = r
            /\ last'.testcase = NoTestcase
            /\ last'.status = "ok"
            /\ retr'[r].cache = Put(retr[r].cache, CacheKey(last'.subject),
                                    last'.raw)]_vars

\* A retrieve without testcase has stored two results as the full set.
C16_Witness ==
    /\ last.op = "results" /\ last.testcase = NoTestcase /\ last.status = "ok"
    /\ Len(last.raw) = 2
    /\ retr[last.r].cache[LastKey] = last.raw

\* C17: the in-process cache belongs to the instance. A call changes the
\* cache of the called instance only, and a call answered from the
\* in-process cache is answered from the entry the called instance stored
\* itself: an entry of another instance is never read.
C17_InProcessCachePerInstance ==
    /\ [](last.op = "results" /\ last.served = "inproc" =>
            /\ LastKey \in DOMAIN retr[last.r].cache
            /\ last.raw = KeepTestcase(retr[last.r].cache[LastKey],
                                       last.testcase))
    /\ []((last.op = "results" /\ last.testcase # NoTestcase
                /\ LastKey \notin DOMAIN retr[last.r].cache) =>
            /\ last.served # "inproc"
            /\ last.served = "upstream" => last.requests >= 1)
    /\ [][\A r \in ResultRetrievers : retr'[r] # retr[r] =>
            (last'.op = "results" /\ last'.r = r)]_vars

\* One instance holds the full set of the subject; the other, which does
\* not, is asked for a testcase and goes upstream.
C17_Witness ==
    /\ last.op = "results" /\ last.testcase # NoTestcase
    /\ last.served = "upstream" /\ last.requests = 2 /\ last.raw # <<>>
    /\ LastKey \notin DOMAIN retr[last.r].cache
    /\ \E other \in ResultRetrievers \ {last.r} :
            /\ LastKey \in DOMAIN retr[other].cache
            /\ retr[other].cache[LastKey] # <<>>

\* C18: a retrieve raises exactly when one of the responses it received has
\* an error status. It then has sent no request after the failing one and
\* has asked for no request twice, returns nothing, and leaves the
\* in-process caches and the external cache as they were.
C18_UpstreamErrorSurfaces ==
    /\ [](last.op = "results" =>
            /\ Len(last.answers) = last.requests
            /\ last.requests <= Len(ResultQueries(last.subject))
            /\ last.status = "error" <=>
                    \E i \in 1..Len(last.answers) : RaisesForStatus(last.answers[i])
            /\ last.status = "error" =>
                    /\ last.requests >= 1
                    /\ RaisesForStatus(last.answers[last.requests])
                    /\ \A i \in 1..(last.requests - 1) :
                            ~RaisesForStatus(last.answers[i])
                    /\ last.raw = <<>> /\ last.out = <<>>
                    /\ ~last.extWrite)
    /\ [][(last'.op = "results" /\ last'.status = "error") =>
            (retr' = retr /\ extCache' = extCache)]_vars

\* The first query of the subject was answered, with a result, and the
\* second failed, in a retrieve without testcase.
C18_Witness ==
    /\ last.op = "results" /\ last.status = "error"
    /\ last.testcase = NoTestcase
    /\ last.answers = <<200, 500>>
    /\ \E i \in 1..Len(db) : db[i].type = ResultQueries(last.subject)[1].type
    /\ LastKey \notin DOMAIN retr[last.r].cache

\* C19: after a retrieve with a testcase has stored its results in the
\* external cache, and with ResultsDB unchanged, a retrieve of the same
\* subject and testcase on any instance that is served from the external
\* cache returns what ResultsDB returns for the since bound of that
\* instance.
C19_CacheHitsMatchWindow ==
    (last.op = "results" /\ last.status = "ok" /\ last.extWrite) =>
        \A r \in ResultRetrievers :
            LET again == ResultsRetrieveAll(r, last.subject, last.testcase,
                                            AllOk(last.subject))
            IN  again.served = "external" =>
                    again.items = MergedResults(last.subject, retr[r].since,
                                                last.testcase,
                                                Len(ResultQueries(last.subject)))

\* C20: the external cache keys of two different (subject type, subject
\* identifier, testcase) triples differ, so the retrieve of one triple is
\* never served from the external cache what was stored for a different
\* triple.
C20_ExternalKeyInjective ==
    (keyq.op = "second" /\ keyq.a # keyq.b) =>
        /\ keyq.ka # keyq.kb
        /\ keyq.served # "external"

====
